---------------------------- MODULE Spec2Model ----------------------------
(***************************************************************************)
(* A model of wizard/io.py: the restart-file velocity rebalancer set_pka,   *)
(* the Extended-XYZ codec (dump_xyz, group_xyz, read_xyz), the virial       *)
(* filter of Prediction and get_nth_nearest_neighbor_index.                 *)
(*                                                                          *)
(* Numbers are exact rationals <<n, d>> (d > 0), extended with the IEEE     *)
(* specials numpy produces on a division by zero: <<1,0>> = inf,            *)
(* <<-1,0>> = -inf, <<0,0>> = nan.  Text is a sequence of pieces: tokens,   *)
(* single spaces and newlines, so that split(' '), join and readline are    *)
(* modelled by what they do to the text.                                    *)
(***************************************************************************)
EXTENDS Integers, Sequences, FiniteSets, TLC

VARIABLES
    restart,      \* text of the input restart file of set_pka
    model_xyz,    \* text of ./model.xyz, or NoFile
    pka,          \* the last set_pka call: its arguments, outcome and data
    xyz_file,     \* the lines of the Extended-XYZ file, or NoFile
    xyz_log,      \* the dump_xyz / group_xyz calls made so far (history)
    xyz_read,     \* result of the last read_xyz
    pred,         \* rows of virial_train.out and the arrays Prediction builds
    nn            \* the neighbour query of get_nth_nearest_neighbor_index

vars == <<restart, model_xyz, pka, xyz_file, xyz_log, xyz_read, pred, nn>>

pkaVars == <<restart, model_xyz, pka>>
xyzVars == <<xyz_file, xyz_log, xyz_read>>

---------------------------------------------------------------------------
(* Exact arithmetic.                                                       *)

Abs(x) == IF x < 0 THEN -x ELSE x

Sgn(x) == IF x < 0 THEN -1 ELSE IF x > 0 THEN 1 ELSE 0

RECURSIVE GCD(_, _)
GCD(a, b) == IF b = 0 THEN a ELSE GCD(b, a % b)

Norm(n, d) ==
    IF d = 0 THEN <<Sgn(n), 0>>
    ELSE LET s == IF d < 0 THEN -1 ELSE 1
             g == GCD(Abs(n), Abs(d))
         IN  <<(s * n) \div g, (s * d) \div g>>

Rat(n) == <<n, 1>>
Zero == <<0, 1>>
NaN == <<0, 0>>
IsFinite(x) == x[2] # 0

RMul(x, y) == Norm(x[1] * y[1], x[2] * y[2])

RNeg(x) == <<-x[1], x[2]>>

RAdd(x, y) ==
    IF x[2] = 0 /\ y[2] = 0
    THEN (IF x = y THEN x ELSE NaN)
    ELSE Norm(x[1] * y[2] + y[1] * x[2], x[2] * y[2])

RSub(x, y) == RAdd(x, RNeg(y))

\* numpy float division: x / 0 is inf, -inf or nan (a RuntimeWarning, no exception)
RDiv(x, y) ==
    IF y[2] = 0 THEN (IF x[2] = 0 \/ y[1] = 0 THEN NaN ELSE Zero)
    ELSE IF y[1] < 0 THEN Norm(-(x[1] * y[2]), -(x[2] * y[1]))
    ELSE Norm(x[1] * y[2], x[2] * y[1])

IsSquare(n) == n >= 0 /\ \E k \in 0..n : k * k = n

ISqrt(n) == CHOOSE k \in 0..n : k * k = n

\* pow(x, 0.5) on the rationals whose root is rational
SqrtDefined(x) == IsFinite(x) /\ IsSquare(x[1]) /\ IsSquare(x[2])

RSqrt(x) == <<ISqrt(x[1]), ISqrt(x[2])>>

RECURSIVE RSum(_)
RSum(s) == IF s = <<>> THEN Zero ELSE RAdd(s[1], RSum(Tail(s)))

---------------------------------------------------------------------------
(* Text.                                                                    *)

NoFile == [exists |-> FALSE, text |-> <<>>]

File(text) == [exists |-> TRUE, text |-> text]

Str(chars) == [s |-> chars, k |-> "s", v |-> Zero]
Num(x) == [s |-> <<>>, k |-> "f", v |-> x]
Sp == [s |-> <<>>, k |-> "sp", v |-> Zero]
Nl == [s |-> <<>>, k |-> "nl", v |-> Zero]

\* f.readline() called again and again: the lines of a text, each with its "\n"
RECURSIVE LinesAcc(_, _)
LinesAcc(text, cur) ==
    IF text = <<>> THEN (IF cur = <<>> THEN <<>> ELSE <<cur>>)
    ELSE IF text[1] = Nl THEN <<Append(cur, Nl)>> \o LinesAcc(Tail(text), <<>>)
    ELSE LinesAcc(Tail(text), Append(cur, text[1]))

Lines(text) == LinesAcc(text, <<>>)

\* the k-th readline(): '' once the file is exhausted
ReadLine(lines, k) == IF k <= Len(lines) THEN lines[k] ELSE <<>>

\* line.split(' '): the fields between single spaces (empty ones included)
RECURSIVE SplitAcc(_, _)
SplitAcc(line, cur) ==
    IF line = <<>> THEN <<cur>>
    ELSE IF line[1] = Sp THEN <<cur>> \o SplitAcc(Tail(line), <<>>)
    ELSE SplitAcc(Tail(line), Append(cur, line[1]))

Split(line) == SplitAcc(line, <<>>)

\* a field without the newline that float() and int() strip
Strip(field) ==
    IF field # <<>> /\ field[Len(field)] = Nl
    THEN SubSeq(field, 1, Len(field) - 1) ELSE field

IsFloat(field) == Len(Strip(field)) = 1 /\ Strip(field)[1].k = "f"

ToFloat(field) == Strip(field)[1].v

IsInt(field) == IsFloat(field) /\ ToFloat(field)[2] = 1

ToInt(field) == ToFloat(field)[1]

RECURSIVE Flatten(_)
Flatten(ss) == IF ss = <<>> THEN <<>> ELSE ss[1] \o Flatten(Tail(ss))

\* sep.join(parts), parts a sequence of texts
RECURSIVE Join(_, _)
Join(sep, parts) ==
    IF parts = <<>> THEN <<>>
    ELSE IF Len(parts) = 1 THEN parts[1]
    ELSE parts[1] \o sep \o Join(sep, Tail(parts))

\* the characters of a string, each a text of its own (iterating a str)
RECURSIVE Chars(_)
Chars(field) ==
    IF field = <<>> THEN <<>>
    ELSE LET p == field[1] IN
         (IF p.k = "s" THEN [i \in 1..Len(p.s) |-> <<Str(<<p.s[i]>>)>>] ELSE <<<<p>>>>)
         \o Chars(Tail(field))

---------------------------------------------------------------------------
(* set_pka.                                                                 *)

MaxAtoms == 3

Axes == 1..3

\* the unit-conversion factor 10.18
TenEighteen == <<509, 50>>

\* the first exception the body of the loop over the atom lines raises on one
\* line, in the order the statements run
AtomError(atom) ==
    IF Len(atom) < 6 THEN "IndexError"
    ELSE IF ~IsFloat(atom[6]) THEN "ValueError"
    ELSE IF Len(atom) < 7 THEN "IndexError"
    ELSE IF ~IsFloat(atom[7]) THEN "ValueError"
    ELSE IF Len(atom) < 8 THEN "IndexError"
    ELSE IF ~IsFloat(atom[8]) THEN "ValueError"
    ELSE IF ~IsFloat(atom[5]) THEN "ValueError"
    ELSE IF Len(atom) < 9 THEN "IndexError"
    ELSE "none"

\* the atoms read by the loop, up to the first line that raises
RECURSIVE ReadAtoms(_, _, _)
ReadAtoms(lines, i, N) ==
    IF i > N THEN [err |-> "none", atoms |-> <<>>]
    ELSE LET atom == Split(ReadLine(lines, i + 2))
             e == AtomError(atom)
         IN  IF e # "none" THEN [err |-> e, atoms |-> <<>>]
             ELSE LET rest == ReadAtoms(lines, i + 1, N)
                  IN  [err |-> rest.err, atoms |-> <<atom>> \o rest.atoms]

\* data as built by the first half of set_pka; atoms are indexed from 1 here
ParseRestart(text) ==
    LET lines == Lines(text)
        header == ReadLine(lines, 1)
        first == Split(header)[1]
        bad == [atom |-> <<>>, N |-> 0, err |-> "ValueError", header |-> header,
                box |-> <<>>, mass |-> <<>>, velocity |-> <<>>, group |-> <<>>]
    IN  IF ~IsInt(first) THEN bad
        ELSE IF ToInt(first) < 0 THEN bad
        ELSE LET N == ToInt(first)
                 r == ReadAtoms(lines, 1, N)
             IN  IF r.err # "none" THEN [bad EXCEPT !.err = r.err]
                 ELSE [atom |-> [i \in 1..N |-> SubSeq(r.atoms[i], 1, 5)],
                       N |-> N,
                       err |-> "none",
                       header |-> header,
                       box |-> ReadLine(lines, 2),
                       mass |-> [i \in 1..N |-> ToFloat(r.atoms[i][5])],
                       velocity |-> [i \in 1..N |->
                                       [ax \in Axes |-> ToFloat(r.atoms[i][5 + ax])]],
                       group |-> [i \in 1..N |-> r.atoms[i][9]]]

\* the exception of the lookup of the target atom and of 2 * energy / mass
LookupError(data, num) ==
    IF num - 1 \notin 0..(data.N - 1) THEN "KeyError"
    ELSE IF data.mass[num] = Zero THEN "ZeroDivisionError"
    ELSE "none"

AngleNorm2(angle) == angle[1] * angle[1] + angle[2] * angle[2] + angle[3] * angle[3]

\* what this model can compute exactly of pow(., 0.5)
PkaComputable(energy, mass, angle) ==
    /\ SqrtDefined(RDiv(Rat(2 * energy), mass))
    /\ IsSquare(AngleNorm2(angle))

PkaSpeed(energy, mass, angle, ax) ==
    RDiv(RDiv(RMul(RSqrt(RDiv(Rat(2 * energy), mass)), Rat(angle[ax])),
              Rat(ISqrt(AngleNorm2(angle)))),
         TenEighteen)

\* a plausible slip: the change spread over all N atoms
PkaDeltaOverN(mass, v, old, N) == RDiv(RMul(mass, RSub(v, old)), Rat(N))

PkaDelta(mass, v, old, N) == RDiv(RMul(mass, RSub(v, old)), Rat(N - 1))

\* the loop over every atom, the target included
PkaCorrected(velocity, mass, delta) ==
    [i \in DOMAIN velocity |->
        [ax \in Axes |-> RSub(velocity[i][ax], RDiv(delta[ax], mass[i]))]]

\* a plausible slip: the target is left with its corrected velocity plus v
PkaVelocityNoOverride(data, energy, angle, num) ==
    LET mass == data.mass[num]
        v == [ax \in Axes |-> PkaSpeed(energy, mass, angle, ax)]
        delta == [ax \in Axes |-> PkaDelta(mass, v[ax], data.velocity[num][ax], data.N)]
        corrected == PkaCorrected(data.velocity, data.mass, delta)
    IN  [corrected EXCEPT ![num] = [ax \in Axes |-> RAdd(corrected[num][ax], v[ax])]]

PkaVelocity(data, energy, angle, num) ==
    LET mass == data.mass[num]
        v == [ax \in Axes |-> PkaSpeed(energy, mass, angle, ax)]
        delta == [ax \in Axes |-> PkaDelta(mass, v[ax], data.velocity[num][ax], data.N)]
        corrected == PkaCorrected(data.velocity, data.mass, delta)
    IN  [corrected EXCEPT ![num] = v]

\* one atom's text in the output
PkaAtomText(atom, velocity, group, is_group) ==
    Join(<<Sp, Sp>>, atom) \o <<Sp>>
    \o Join(<<Sp>>, [ax \in Axes |-> <<Num(velocity[ax])>>]) \o <<Sp>>
    \o Join(<<Sp>>, Chars(group))
    \o (IF is_group THEN <<Sp, Nl>> ELSE <<>>)

PkaOutput(data, velocity, is_group) ==
    data.header \o data.box
    \o Flatten([i \in 1..data.N |->
                  PkaAtomText(data.atom[i], velocity[i], data.group[i], is_group)])

\* the whole call: its exception, its data and the text it would write
set_pka(text, energy, angle, num, is_group) ==
    LET data == ParseRestart(text)
        none == [err |-> data.err, velocity |-> <<>>, data |-> data, out |-> <<>>]
    IN  IF data.err # "none" THEN none
        ELSE IF LookupError(data, num) # "none"
        THEN [none EXCEPT !.err = LookupError(data, num)]
        ELSE LET velocity == PkaVelocity(data, energy, angle, num)
             IN  [err |-> "none", velocity |-> velocity, data |-> data,
                  out |-> PkaOutput(data, velocity, is_group)]

\* ./model.xyz after the call: it is opened for writing only after the first
\* with-block has ended without an exception
\* a plausible slip: ./model.xyz opened for writing before the input is read
ModelXyzOpenedFirst(old, r) == IF r.err = "none" THEN File(r.out) ELSE File(<<>>)

ModelXyzAfter(old, r) == IF r.err = "none" THEN File(r.out) ELSE old

Energies == {2, 8}

Angles == {<<1, 0, 0>>, <<2, -1, 2>>}

BoxLine == <<Str(<<"b">>), Nl>>

HeaderLines ==
    {<<Num(Rat(n)), Nl>> : n \in 1..MaxAtoms}
    \cup {<<Str(<<"x">>), Nl>>}

Lead == <<Str(<<"F", "e">>), Sp, Num(Rat(7)), Sp, Num(Zero), Sp, Str(<<"i">>), Sp>>

AtomLine(mass, v, group, tail) ==
    Lead \o <<mass, Sp, v[1], Sp, v[2], Sp, v[3], Sp, group>> \o tail

Rest == <<Num(Zero), Num(Zero), Num(Zero)>>

GoodLines ==
    { AtomLine(Num(Rat(1)), Rest, Str(<<"0">>), <<Nl>>),
      AtomLine(Num(Rat(4)), <<Num(Rat(1)), Num(<<-1, 2>>), Num(Zero)>>,
               Str(<<"1", "2">>), <<Nl>>) }

BadLines ==
    { AtomLine(Str(<<"m">>), Rest, Str(<<"0">>), <<Nl>>),
      AtomLine(Num(Rat(1)), <<Num(Zero), Str(<<"v">>), Num(Zero)>>, Str(<<"0">>), <<Nl>>),
      Lead \o <<Num(Rat(1)), Sp, Num(Zero), Sp, Num(Zero), Sp, Num(Zero), Nl>> }

AtomLines == GoodLines \cup BadLines

OldModelXyz == File(<<Str(<<"o", "l", "d">>), Nl>>)

NoCall ==
    [N |-> 0, err |-> "none", mass |-> <<>>, velocity |-> <<>>, num |-> 0,
     angle |-> <<0, 0, 0>>, energy |-> 0, old |-> <<>>, is_group |-> FALSE,
     called |-> FALSE, before |-> NoFile]

InitPkaVars ==
    /\ restart = <<>>
    /\ pka = NoCall

\* the environment writes the restart file: header and box line, then atom lines
WriteRestartHeader(h) ==
    /\ ~pka.called
    /\ restart = <<>>
    /\ restart' = h \o BoxLine
    /\ UNCHANGED <<model_xyz, pka, xyzVars, pred, nn>>

\* nothing is appended after a line the reader cannot get past
WriteAtomLine(l) ==
    /\ ~pka.called
    /\ restart # <<>>
    /\ LET lines == Lines(restart)
       IN  /\ Len(lines) < MaxAtoms + 2
           /\ lines[Len(lines)] \notin BadLines
    /\ restart' = restart \o l
    /\ UNCHANGED <<model_xyz, pka, xyzVars, pred, nn>>

SetPka(energy, angle, num, is_group) ==
    /\ ~pka.called
    /\ LET data == ParseRestart(restart)
       IN  (data.err = "none" /\ LookupError(data, num) = "none")
              => PkaComputable(energy, data.mass[num], angle)
    /\ LET r == set_pka(restart, energy, angle, num, is_group)
       IN  /\ model_xyz' = ModelXyzAfter(model_xyz, r)
           /\ pka' = [N |-> r.data.N, err |-> r.err, mass |-> r.data.mass,
                      velocity |-> r.velocity, num |-> num, angle |-> angle,
                      energy |-> energy, old |-> r.data.velocity,
                      is_group |-> is_group, called |-> TRUE,
                      before |-> model_xyz]
    /\ UNCHANGED <<restart, xyzVars, pred, nn>>

---------------------------------------------------------------------------
(* The Extended-XYZ codec.  Positions, masses and cell entries are          *)
(* integers in units of 1e-8, so a value below 10 has at most nine          *)
(* significant digits and '{:>15.8e}' writes it exactly, and a value of 10  *)
(* or more loses its last digit.                                            *)

Q == [s |-> <<>>, k |-> "q", v |-> Zero]
Key(name) == [s |-> <<name>>, k |-> "key", v |-> Zero]
NumI(x) == Num(Rat(x))

\* float() of a number of the file, in units of 1e-8
ToUnits(field) == ToFloat(field)[1]

PbcMark == <<Key("pbc="), Q>>
LatticeMark == <<Key("Lattice="), Q>>
PropertiesMark == <<Q, Sp, Key("Properties=")>>

\* text.split(marker): the parts between the occurrences of marker
RECURSIVE SplitOnAcc(_, _, _)
SplitOnAcc(text, m, cur) ==
    IF text = <<>> THEN <<cur>>
    ELSE IF Len(text) >= Len(m) /\ SubSeq(text, 1, Len(m)) = m
    THEN <<cur>> \o SplitOnAcc(SubSeq(text, Len(m) + 1, Len(text)), m, <<>>)
    ELSE SplitOnAcc(Tail(text), m, Append(cur, text[1]))

SplitOn(text, m) == SplitOnAcc(text, m, <<>>)

IsSpace(p) == p = Sp \/ p = Nl

\* text.split(): the fields between runs of whitespace
RECURSIVE WSplitAcc(_, _)
WSplitAcc(text, cur) ==
    IF text = <<>> THEN (IF cur = <<>> THEN <<>> ELSE <<cur>>)
    ELSE IF IsSpace(text[1])
    THEN (IF cur = <<>> THEN <<>> ELSE <<cur>>) \o WSplitAcc(Tail(text), <<>>)
    ELSE WSplitAcc(Tail(text), Append(cur, text[1]))

WSplit(text) == WSplitAcc(text, <<>>)

\* text.strip()
RECURSIVE LStrip(_)
LStrip(text) ==
    IF text # <<>> /\ IsSpace(text[1]) THEN LStrip(Tail(text)) ELSE text

RECURSIVE RStrip(_)
RStrip(text) ==
    IF text # <<>> /\ IsSpace(text[Len(text)])
    THEN RStrip(SubSeq(text, 1, Len(text) - 1)) ELSE text

StripWs(text) == RStrip(LStrip(text))

Upper(c) == CASE c = "f" -> "F" [] c = "e" -> "E" [] c = "h" -> "H" [] OTHER -> c
Lower(c) == CASE c = "F" -> "f" [] c = "E" -> "e" [] c = "H" -> "h" [] OTHER -> c

\* symbol.lower().capitalize()
Capitalize(chars) ==
    [i \in 1..Len(chars) |-> IF i = 1 THEN Upper(Lower(chars[i])) ELSE Lower(chars[i])]

\* the nine significant digits of '{:.8e}'
SigLimit == 1000000000

RoundHalfEven10(x) ==
    LET a == Abs(x)
        q == a \div 10
        r == a % 10
        up == r > 5 \/ (r = 5 /\ q % 2 = 1)
    IN  Sgn(x) * 10 * (IF up THEN q + 1 ELSE q)

FormatE(x) == IF Abs(x) < SigLimit THEN x ELSE RoundHalfEven10(x)

\* '{:>15.8e}': right-aligned in 15 columns, a sign takes the padding
PadE(x) == (IF x >= 0 THEN <<Sp>> ELSE <<>>) \o <<NumI(FormatE(x))>>

\* '{:2}'
Pad2(symbol) == <<Str(symbol)>> \o (IF Len(symbol) < 2 THEN <<Sp>> ELSE <<>>)

Reshape(cell) == cell[1] \o cell[2] \o cell[3]

HeaderText(atoms) ==
    PbcMark
    \o Join(<<Sp>>, [i \in 1..3 |-> <<Str(<<IF atoms.pbc[i] THEN "T" ELSE "F">>)>>])
    \o <<Q, Sp>> \o LatticeMark
    \o Join(<<Sp>>, [i \in 1..9 |-> <<NumI(Reshape(atoms.cell)[i])>>])
    \o <<Q, Sp, Key("Properties="), Str(<<"species:S:1:pos:R:3:mass:R:1">>)>>

AtomText(atoms, j) ==
    Pad2(atoms.symbols[j]) \o <<Sp>>
    \o PadE(atoms.positions[j][1]) \o <<Sp>>
    \o PadE(atoms.positions[j][2]) \o <<Sp>>
    \o PadE(atoms.positions[j][3]) \o <<Sp>>
    \o PadE(atoms.masses[j])

\* the lines dump_xyz appends (Out_string, line by line)
DumpText(atoms, comment) ==
    <<<<NumI(Len(atoms.symbols)), Nl>>,
      HeaderText(atoms) \o comment \o <<Nl>>>>
    \o [j \in 1..Len(atoms.symbols) |-> AtomText(atoms, j) \o <<Nl>>]

\* a file opened with mode 'a' and written to; the Extended-XYZ file is kept as
\* its lines (what f.readlines() returns), every write being whole lines
Appended(file, lines) == File(file.text \o lines)

\* a plausible slip: dump_xyz opening its file with mode 'w'
DumpTruncating(file, atoms, comment) == File(DumpText(atoms, comment))

dump_xyz(file, atoms, comment) == Appended(file, DumpText(atoms, comment))

\* a plausible slip: the upper bound tested first
GroupTagMaxFirst(p, min_xyz, max_xyz) ==
    IF p[1] >= max_xyz[1] \/ p[2] >= max_xyz[2] \/ p[3] >= max_xyz[3] THEN 1
    ELSE IF p[1] < min_xyz[1] \/ p[2] < min_xyz[2] \/ p[3] < min_xyz[3] THEN 0
    ELSE 2

GroupTag(p, min_xyz, max_xyz) ==
    IF p[1] < min_xyz[1] \/ p[2] < min_xyz[2] \/ p[3] < min_xyz[3] THEN 0
    ELSE IF p[1] >= max_xyz[1] \/ p[2] >= max_xyz[2] \/ p[3] >= max_xyz[3] THEN 1
    ELSE 2

GroupText(atoms, min_xyz, max_xyz) ==
    <<<<NumI(Len(atoms.symbols)), Nl>>,
      HeaderText(atoms) \o <<Str(<<":group:I:1">>), Nl>>>>
    \o [j \in 1..Len(atoms.symbols) |->
          AtomText(atoms, j)
          \o <<Sp, NumI(GroupTag(atoms.positions[j], min_xyz, max_xyz)), Nl>>]

\* the file is opened with mode 'w'
group_xyz(file, atoms, min_xyz, max_xyz) == File(GroupText(atoms, min_xyz, max_xyz))

\* pbc of a comment line
ReadPbc(comment) ==
    IF Len(SplitOn(comment, PbcMark)) > 1
    THEN LET pbc_str == StripWs(SplitOn(SplitOn(comment, PbcMark)[2], <<Q>>)[1])
             values == WSplit(pbc_str)
         IN  [i \in 1..Len(values) |-> values[i] = <<Str(<<"T">>)>>]
    ELSE <<TRUE, TRUE, TRUE>>

\* the rows of lattice_str.split(" "), each row.split() mapped through float
LatticeRows(comment) ==
    LET lattice_str == StripWs(SplitOn(SplitOn(comment, LatticeMark)[2], PropertiesMark)[1])
        rows == Split(lattice_str)
    IN  [i \in 1..Len(rows) |-> WSplit(rows[i])]

LatticeError(comment) ==
    IF Len(SplitOn(comment, LatticeMark)) < 2 THEN "IndexError"
    ELSE LET rows == LatticeRows(comment)
         IN  IF \E i \in 1..Len(rows) : \E j \in 1..Len(rows[i]) : ~IsFloat(rows[i][j])
             THEN "ValueError"
             ELSE IF Len(rows) < 9 THEN "IndexError"
             ELSE "none"

\* a plausible slip: the nine numbers taken column by column
ReadCellTransposed(comment) ==
    LET rows == LatticeRows(comment)
        lattice == [i \in 1..Len(rows) |-> [j \in 1..Len(rows[i]) |-> ToUnits(rows[i][j])]]
    IN  <<lattice[1] \o lattice[4] \o lattice[7],
          lattice[2] \o lattice[5] \o lattice[8],
          lattice[3] \o lattice[6] \o lattice[9]>>

ReadCell(comment) ==
    LET rows == LatticeRows(comment)
        lattice == [i \in 1..Len(rows) |-> [j \in 1..Len(rows[i]) |-> ToUnits(rows[i][j])]]
    IN  <<lattice[1] \o lattice[2] \o lattice[3],
          lattice[4] \o lattice[5] \o lattice[6],
          lattice[7] \o lattice[8] \o lattice[9]>>

SymbolChars(field) == Flatten([i \in 1..Len(field) |-> field[i].s])

AtomLineError(lines, j) ==
    IF j > Len(lines) THEN "IndexError"
    ELSE LET f == WSplit(lines[j])
         IN  IF Len(f) < 4 THEN "ValueError"
             ELSE IF \E i \in 2..4 : ~IsFloat(f[i]) THEN "ValueError"
             ELSE "none"

\* the loop of read_xyz over the lines left, from line k on
RECURSIVE ReadFrames(_, _)
ReadFrames(lines, k) ==
    IF k > Len(lines) THEN [err |-> "none", frames |-> <<>>]
    ELSE IF ~IsInt(StripWs(lines[k])) THEN [err |-> "ValueError", frames |-> <<>>]
    ELSE IF k + 1 > Len(lines) THEN [err |-> "IndexError", frames |-> <<>>]
    ELSE LET natoms == ToInt(StripWs(lines[k]))
             comment == lines[k + 1]
             bad == {j \in 1..natoms : AtomLineError(lines, k + 1 + j) # "none"}
         IN  IF LatticeError(comment) # "none"
             THEN [err |-> LatticeError(comment), frames |-> <<>>]
             ELSE IF bad # {}
             THEN [err |-> AtomLineError(lines, k + 1 + CHOOSE j \in bad : \A i \in bad : j <= i),
                   frames |-> <<>>]
             ELSE LET atom == [j \in 1..natoms |-> WSplit(lines[k + 1 + j])]
                      frame == [cell |-> ReadCell(comment),
                                pbc |-> ReadPbc(comment),
                                symbols |-> [j \in 1..natoms |->
                                               Capitalize(SymbolChars(atom[j][1]))],
                                positions |-> [j \in 1..natoms |->
                                                 [i \in 1..3 |-> ToUnits(atom[j][i + 1])]]]
                      rest == ReadFrames(lines, k + 2 + (IF natoms > 0 THEN natoms ELSE 0))
                  IN  [err |-> rest.err, frames |-> <<frame>> \o rest.frames]

read_xyz(file) ==
    IF ~file.exists THEN [err |-> "FileNotFoundError", frames |-> <<>>]
    ELSE ReadFrames(file.text, 1)

MaxXyzCalls == 3

NoRead == [err |-> "none", frames |-> <<>>, done |-> FALSE]

DumpXyz(atoms, comment) ==
    /\ Len(xyz_log) < MaxXyzCalls
    /\ xyz_file' = dump_xyz(xyz_file, atoms, comment)
    /\ xyz_log' = Append(xyz_log, [atoms |-> atoms, comment |-> comment,
                                   min_xyz |-> <<>>, max_xyz |-> <<>>, op |-> "dump"])
    /\ xyz_read' = NoRead
    /\ UNCHANGED <<pkaVars, pred, nn>>

GroupXyz(atoms, min_xyz, max_xyz) ==
    /\ Len(xyz_log) < MaxXyzCalls
    /\ xyz_file' = group_xyz(xyz_file, atoms, min_xyz, max_xyz)
    /\ xyz_log' = Append(xyz_log, [atoms |-> atoms, comment |-> <<>>,
                                   min_xyz |-> min_xyz, max_xyz |-> max_xyz,
                                   op |-> "group"])
    /\ xyz_read' = NoRead
    /\ UNCHANGED <<pkaVars, pred, nn>>

ReadXyz ==
    /\ ~xyz_read.done
    /\ LET r == read_xyz(xyz_file)
       IN  xyz_read' = [err |-> r.err, frames |-> r.frames, done |-> TRUE]
    /\ UNCHANGED <<xyz_file, xyz_log, pkaVars, pred, nn>>

\* 1.0 in the unit of the file's numbers: 10.0 is the first value with ten digits
One == SigLimit \div 10

CellA == <<<<10 * One, 0, 0>>, <<0, 10 * One, 0>>, <<0, 0, 10 * One>>>>
CellB == <<<<One, 2 * One, 3 * One>>, <<4 * One, 5 * One, 6 * One>>, <<7 * One, 8 * One, -9 * One>>>>

Frames ==
    { [cell |-> CellA, pbc |-> <<TRUE, TRUE, TRUE>>,
       symbols |-> <<>>, positions |-> <<>>, masses |-> <<>>],
      [cell |-> CellB, pbc |-> <<TRUE, FALSE, TRUE>>,
       symbols |-> <<<<"H">>>>, positions |-> <<<<-One, 11 * One, 5 * One>>>>,
       masses |-> <<One>>],
      [cell |-> CellB, pbc |-> <<FALSE, FALSE, TRUE>>,
       symbols |-> <<<<"F", "e">>, <<"H">>>>,
       positions |-> <<<<5 * One, 5 * One, 5 * One>>, <<1234567885, 0, -1234567891>>>>,
       masses |-> <<12 * One, One>>] }

\* comment suffixes: none, and one that repeats the markers the reader looks for
Comments ==
    { <<>>,
      <<Sp>> \o LatticeMark \o <<NumI(9)>> \o PropertiesMark \o <<Str(<<"c">>), Sp>>
             \o PbcMark \o <<Str(<<"F">>), Q>> }

Boxes == { [min_xyz |-> <<0, 0, 0>>, max_xyz |-> <<10 * One, 10 * One, 10 * One>>],
           [min_xyz |-> <<0, 5 * One, -One>>, max_xyz |-> <<5 * One, 11 * One, 10 * One>>] }

InitXyzVars ==
    /\ xyz_file \in {NoFile, File(<<>>)}
    /\ xyz_log = <<>>
    /\ xyz_read = NoRead

IdleXyz ==
    /\ xyz_file = NoFile
    /\ xyz_log = <<>>
    /\ xyz_read = NoRead

IdlePka ==
    /\ restart = <<>>
    /\ model_xyz = NoFile
    /\ pka = NoCall

---------------------------------------------------------------------------
(* Prediction: the virial arrays.                                           *)

MaxRows == 2

\* -10**6
Sentinel == -1000000

NoPrediction == [rows |-> <<>>, done |-> FALSE, v_1 |-> <<>>, v_2 |-> <<>>,
                 vd |-> <<>>, vr |-> <<>>]

\* v_2 and v_1 as the loop over the lines builds them: rows of 12 numbers only
RECURSIVE VirialColumns(_, _, _)
VirialColumns(rows, from, to) ==
    IF rows = <<>> THEN <<>>
    ELSE (IF Len(rows[1]) = 12 THEN SubSeq(rows[1], from, to) ELSE <<>>)
         \o VirialColumns(Tail(rows), from, to)

\* np.where(v == -10**6)[0], indexed from 1
SentinelIndex(v) == {i \in 1..Len(v) : v[i] = Sentinel}

\* np.delete(v, idx)
RECURSIVE DeleteAt(_, _, _)
DeleteAt(v, idx, i) ==
    IF i > Len(v) THEN <<>>
    ELSE (IF i \in idx THEN <<>> ELSE <<v[i]>>) \o DeleteAt(v, idx, i + 1)

\* Prediction, as far as the virial goes: plot_v(vd, vr) is called as plot_v(v_1, v_2)
Prediction(rows) ==
    LET v_2 == VirialColumns(rows, 1, 6)
        v_1 == VirialColumns(rows, 7, 12)
        idx == SentinelIndex(v_2)
    IN  [rows |-> rows, done |-> TRUE,
         v_1 |-> DeleteAt(v_1, idx, 1), v_2 |-> DeleteAt(v_2, idx, 1),
         vd |-> DeleteAt(v_1, idx, 1), vr |-> DeleteAt(v_2, idx, 1)]

VirialValues == {Sentinel, 0, 3}

\* rows of virial_train.out: columns 1 and 6 of either half vary
VirialRows ==
    { <<a, 1, 1, 1, 1, c, b, 2, 2, 2, 2, 2>> :
         a \in VirialValues, b \in VirialValues, c \in {1, Sentinel} }
    \cup { <<0, 1, 1, 1, 1, 1, 0, 2, 2, 2, 2>> }

AddVirialRow(row) ==
    /\ ~pred.done
    /\ Len(pred.rows) < MaxRows
    /\ pred' = [pred EXCEPT !.rows = Append(@, row)]
    /\ UNCHANGED <<pkaVars, xyzVars, nn>>

RunPrediction ==
    /\ ~pred.done
    /\ pred' = Prediction(pred.rows)
    /\ UNCHANGED <<pkaVars, xyzVars, nn>>

IdlePred == pred = NoPrediction

---------------------------------------------------------------------------
(* get_nth_nearest_neighbor_index.  Distances are integers in units of     *)
(* 1e-8, the absolute tolerance of numpy.isclose.                           *)

MaxNeighbors == 3

\* np.isclose(a, b): |a - b| <= atol + rtol * |b|, atol = 1e-8, rtol = 1e-5
IsClose(a, b) == Abs(a - b) <= 1 + (Abs(b) \div 100000)

\* sorted(..., key=lambda x: x[0]): stable, by distance
RECURSIVE InsertByDistance(_, _)
InsertByDistance(x, sorted) ==
    IF sorted = <<>> THEN <<x>>
    ELSE IF sorted[1][1] <= x[1] THEN <<sorted[1]>> \o InsertByDistance(x, Tail(sorted))
    ELSE <<x>> \o sorted

RECURSIVE SortedNeighbors(_)
SortedNeighbors(pairs) ==
    IF pairs = <<>> THEN <<>>
    ELSE InsertByDistance(pairs[Len(pairs)],
                          SortedNeighbors(SubSeq(pairs, 1, Len(pairs) - 1)))

None == [none |-> TRUE, index |-> 0]
Some(i) == [none |-> FALSE, index |-> i]

\* a plausible slip: the shell counter advanced before the test for the nth shell
RECURSIVE NthLoopCountFirst(_, _, _, _)
NthLoopCountFirst(sorted, i, current_order, nth) ==
    IF i > Len(sorted) THEN None
    ELSE LET next == IF i < Len(sorted) /\ ~IsClose(sorted[i][1], sorted[i + 1][1])
                     THEN current_order + 1 ELSE current_order
         IN  IF next = nth THEN Some(sorted[i][2])
             ELSE NthLoopCountFirst(sorted, i + 1, next, nth)

\* the for loop, from position i on (positions are counted from 1)
RECURSIVE NthLoop(_, _, _, _)
NthLoop(sorted, i, current_order, nth) ==
    IF i > Len(sorted) THEN None
    ELSE IF current_order = nth THEN Some(sorted[i][2])
    ELSE NthLoop(sorted, i + 1,
                 IF i < Len(sorted) /\ ~IsClose(sorted[i][1], sorted[i + 1][1])
                 THEN current_order + 1 ELSE current_order,
                 nth)

\* pairs: <<distance, index>> of the neighbours, in the order of get_neighbors
get_nth_nearest_neighbor_index(pairs, nth) == NthLoop(SortedNeighbors(pairs), 1, 1, nth)

NoQuery == [pairs |-> <<>>, nth |-> 0, asked |-> FALSE, result |-> None]

\* 1.0, two distances close to it of which the larger is not close to 1.0, 2.0, 3.0
Distances == {One, One + 1000, One + 2000, 2 * One, 3 * One}

\* the neighbour list gains a neighbour; atoms are numbered from 1, atom 0 asks
AddNeighbor(d) ==
    /\ ~nn.asked
    /\ Len(nn.pairs) < MaxNeighbors
    /\ nn' = [nn EXCEPT !.pairs = Append(@, <<d, Len(@) + 1>>)]
    /\ UNCHANGED <<pkaVars, xyzVars, pred>>

GetNthNearestNeighborIndex(nth) ==
    /\ ~nn.asked
    /\ nn' = [nn EXCEPT !.asked = TRUE, !.nth = nth,
                        !.result = get_nth_nearest_neighbor_index(nn.pairs, nth)]
    /\ UNCHANGED <<pkaVars, xyzVars, pred>>

IdleNN == nn = NoQuery

InitPka ==
    /\ InitPkaVars
    /\ model_xyz \in {NoFile, OldModelXyz}
    /\ IdleXyz /\ IdlePred /\ IdleNN

NextPka ==
    \/ \E h \in HeaderLines : WriteRestartHeader(h)
    \/ \E l \in AtomLines : WriteAtomLine(l)
    \/ \E e \in Energies, a \in Angles, num \in 0..(MaxAtoms + 1), g \in BOOLEAN :
          SetPka(e, a, num, g)

SpecPka == InitPka /\ [][NextPka]_vars

InitXyz == InitXyzVars /\ IdlePka /\ IdlePred /\ IdleNN

NextXyz ==
    \/ \E atoms \in Frames, comment \in Comments : DumpXyz(atoms, comment)
    \/ \E atoms \in Frames : GroupXyz(atoms, <<0, 0, 0>>, <<10 * One, 10 * One, 10 * One>>)
    \/ ReadXyz

SpecXyz == InitXyz /\ [][NextXyz]_vars

\* one atom at every position of a grid around the boxes
Grid == {-One, 0, 5 * One, 10 * One, 11 * One}

OneAtom(p) ==
    [cell |-> CellA, pbc |-> <<TRUE, TRUE, TRUE>>,
     symbols |-> <<<<"H">>>>, positions |-> <<p>>, masses |-> <<One>>]

GroupOnce(atoms, min_xyz, max_xyz) ==
    /\ xyz_log = <<>>
    /\ GroupXyz(atoms, min_xyz, max_xyz)

NextGroup ==
    \E p \in Grid \X Grid \X Grid, box \in Boxes :
        GroupOnce(OneAtom(p), box.min_xyz, box.max_xyz)

SpecGroup == InitXyz /\ [][NextGroup]_vars

InitPred == IdlePka /\ IdleXyz /\ IdlePred /\ IdleNN

NextPred ==
    \/ \E row \in VirialRows : AddVirialRow(row)
    \/ RunPrediction

SpecPred == InitPred /\ [][NextPred]_vars

NextNN ==
    \/ \E d \in Distances : AddNeighbor(d)
    \/ \E nth \in 1..(MaxNeighbors + 1) : GetNthNearestNeighborIndex(nth)

SpecNN == InitPred /\ [][NextNN]_vars

---------------------------------------------------------------------------
(* Claims about set_pka.                                                    *)

Completed == pka.called /\ pka.err = "none"

Momentum(mass, velocity, ax) ==
    RSum([i \in DOMAIN velocity |-> RMul(mass[i], velocity[i][ax])])

\* C1: for N >= 2 and positive masses, the per-axis sum of mass * velocity over
\* the velocities set_pka writes equals the sum over the velocities it read.
C1_MomentumConserved ==
    (Completed /\ pka.N >= 2 /\ \A i \in 1..pka.N : pka.mass[i][1] > 0)
        => \A ax \in Axes :
              Momentum(pka.mass, pka.velocity, ax) = Momentum(pka.mass, pka.old, ax)

C1_Witness ==
    /\ Completed /\ pka.N = 3
    /\ pka.velocity # pka.old
    /\ Momentum(pka.mass, pka.old, 1) # Zero
    /\ \E i, j \in 1..pka.N : pka.mass[i] # pka.mass[j]

\* C5: with N = 1 the call raises (the claim as stated).
C5_SingleAtomRaises ==
    (pka.called /\ ParseRestart(restart).err = "none" /\ ParseRestart(restart).N = 1
        /\ pka.num = 1)
        => pka.err # "none"

\* C6: the text written parses, by the rules of the input, to the same N, header
\* and box, and per atom to the same fields 0-4 and group tag, with fields 5-7
\* the updated velocity (the claim as stated).
C6_OutputSameLayout ==
    Completed =>
        LET in == ParseRestart(restart)
            out == ParseRestart(model_xyz.text)
        IN  /\ out.err = "none"
            /\ out.N = in.N
            /\ out.header = in.header
            /\ out.box = in.box
            /\ \A i \in 1..in.N :
                  /\ out.atom[i] = in.atom[i]
                  /\ out.group[i] = in.group[i]
                  /\ out.velocity[i] = pka.velocity[i]

\* the square of the speed along ax, and its sign, stated without the code's
\* expression: (10.18 * v)^2 * |angle|^2 * mass = 2 * energy * angle_ax^2
IsPkaSpeed(v, ax) ==
    /\ LET w == RMul(v, TenEighteen)
       IN  RMul(RMul(RMul(w, w), Rat(AngleNorm2(pka.angle))), pka.mass[pka.num])
             = Rat(2 * pka.energy * pka.angle[ax] * pka.angle[ax])
    /\ Sgn(v[1]) = Sgn(pka.angle[ax])

\* C8: for N >= 2 the target is written with exactly v, and every other atom i
\* with old[i] - delta / mass[i], delta = mass[t] * (v - old[t]) / (N - 1); three
\* atoms of mass 1 at rest leave the two others with -v_x / 2.
C8_PerAtomResult ==
    (Completed /\ pka.N >= 2) =>
        LET t == pka.num IN
        /\ \A ax \in Axes : IsPkaSpeed(pka.velocity[t][ax], ax)
        /\ \A i \in (1..pka.N) \ {t} : \A ax \in Axes :
              RMul(RMul(RSub(pka.old[i][ax], pka.velocity[i][ax]), pka.mass[i]),
                   Rat(pka.N - 1))
                = RMul(pka.mass[t], RSub(pka.velocity[t][ax], pka.old[t][ax]))
        /\ (pka.N = 3 /\ \A i \in 1..3 : pka.mass[i] = Rat(1) /\ pka.old[i] = [ax \in Axes |-> Zero])
              => \A i \in (1..3) \ {t} :
                    RMul(pka.velocity[i][1], Rat(2)) = RNeg(pka.velocity[t][1])

C8_Witness ==
    /\ Completed /\ pka.N = 3 /\ pka.num = 1
    /\ \A i \in 1..3 : pka.mass[i] = Rat(1) /\ pka.old[i] = [ax \in Axes |-> Zero]
    /\ pka.angle = <<1, 0, 0>>
    /\ pka.velocity[1][1] = <<100, 509>>
    /\ pka.velocity[2][1] = <<-50, 509>>

\* C10: a call that raises while reading the restart file or looking up the
\* target leaves ./model.xyz as it was before the call.
C10_NoWriteOnFailure ==
    (pka.called /\ pka.err # "none") => model_xyz = pka.before

C10_Witness ==
    /\ pka.called /\ pka.err = "KeyError" /\ pka.num = 0
    /\ pka.before = OldModelXyz
    /\ model_xyz = OldModelXyz

---------------------------------------------------------------------------
(* Claims about the Extended-XYZ codec.                                     *)

LastCall == xyz_log[Len(xyz_log)]

\* the group column of the atom lines of the file, in order
WrittenTags ==
    LET lines == xyz_file.text
    IN  [j \in 1..(Len(lines) - 2) |->
            LET f == WSplit(lines[j + 2]) IN ToInt(f[Len(f)])]

\* C2: the tag written is 0 if some coordinate is below the box minimum,
\* otherwise 1 if some coordinate is at or above the box maximum, otherwise 2.
C2_GroupingClassification ==
    (xyz_log # <<>> /\ LastCall.op = "group") =>
        LET p == LastCall.atoms.positions
            lo == LastCall.min_xyz
            hi == LastCall.max_xyz
        IN  /\ Len(WrittenTags) = Len(p)
            /\ \A j \in 1..Len(p) :
                  LET below == \E ax \in Axes : p[j][ax] < lo[ax]
                      above == \E ax \in Axes : p[j][ax] >= hi[ax]
                  IN  /\ WrittenTags[j] \in {0, 1, 2}
                      /\ WrittenTags[j] = 0 <=> below
                      /\ WrittenTags[j] = 1 <=> (~below /\ above)
                      /\ WrittenTags[j] = 2 <=> (~below /\ ~above)

\* below the minimum on x and at or above the maximum on y: tagged 0
C2_Witness ==
    /\ xyz_log # <<>> /\ LastCall.op = "group"
    /\ LastCall.atoms.positions = <<<<-One, 11 * One, 5 * One>>>>
    /\ LastCall.min_xyz = <<0, 0, 0>>
    /\ LastCall.max_xyz = <<10 * One, 10 * One, 10 * One>>
    /\ WrittenTags = <<0>>

\* C3: one dump_xyz to an empty file, read back by read_xyz, gives one frame
\* with the species, the positions to the written precision, the cell in the
\* same row-major order and the periodic flags of the frame written.
C3_RoundTrip ==
    (xyz_read.done /\ Len(xyz_log) = 1 /\ LastCall.op = "dump") =>
        LET w == LastCall.atoms IN
        /\ xyz_read.err = "none"
        /\ Len(xyz_read.frames) = 1
        /\ LET r == xyz_read.frames[1] IN
           /\ r.symbols = w.symbols
           /\ Len(r.positions) = Len(w.positions)
           /\ \A j \in 1..Len(w.positions) : \A ax \in Axes :
                 2 * Abs(r.positions[j][ax] - w.positions[j][ax])
                    <= (IF Abs(w.positions[j][ax]) < SigLimit THEN 0 ELSE 10)
           /\ \A i \in 1..3 : \A j \in 1..3 : r.cell[i][j] = w.cell[i][j]
           /\ r.pbc = w.pbc

C3_Witness ==
    /\ xyz_read.done /\ Len(xyz_log) = 1 /\ LastCall.op = "dump"
    /\ LastCall.comment # <<>>
    /\ LastCall.atoms.cell = CellB
    /\ Len(xyz_read.frames) = 1
    /\ xyz_read.frames[1].positions = <<<<5 * One, 5 * One, 5 * One>>, <<1234567880, 0, -1234567890>>>>
    /\ xyz_read.frames[1].pbc = <<FALSE, FALSE, TRUE>>

\* what read_xyz keeps of a frame written
AsRead(atoms) ==
    [cell |-> atoms.cell,
     pbc |-> atoms.pbc,
     symbols |-> atoms.symbols,
     positions |-> [j \in 1..Len(atoms.positions) |->
                      [ax \in Axes |-> FormatE(atoms.positions[j][ax])]]]

GroupCalls == {i \in 1..Len(xyz_log) : xyz_log[i].op = "group"}

\* the calls whose frames are in the file: the last group_xyz and what follows
FirstKept == IF GroupCalls = {} THEN 1 ELSE CHOOSE i \in GroupCalls : \A k \in GroupCalls : k <= i

\* C4: read_xyz returns the frame of the most recent group_xyz call followed by
\* the frames of the dump_xyz calls made after it, in call order; with no
\* group_xyz call, the frames of all dump_xyz calls.
C4_AppendVersusOverwrite ==
    (xyz_read.done /\ xyz_file.exists) =>
        /\ xyz_read.err = "none"
        /\ Len(xyz_read.frames) = Len(xyz_log) - FirstKept + 1
        /\ \A i \in 1..Len(xyz_read.frames) :
              xyz_read.frames[i] = AsRead(xyz_log[FirstKept + i - 1].atoms)

C4_Witness ==
    /\ xyz_read.done /\ Len(xyz_log) = 3
    /\ xyz_log[1].op = "dump" /\ xyz_log[2].op = "group" /\ xyz_log[3].op = "dump"
    /\ Len(xyz_log[1].atoms.symbols) = 1
    /\ Len(xyz_log[2].atoms.symbols) = 2
    /\ Len(xyz_log[3].atoms.symbols) = 0
    /\ Len(xyz_read.frames) = 2
    /\ Len(xyz_read.frames[1].symbols) = 2

---------------------------------------------------------------------------
(* Claims about Prediction and get_nth_nearest_neighbor_index.              *)

\* the (predicted, reference) pairs of the 12-column rows, in the order of the
\* arrays; the reference is the value that reaches plot_v as its DFT argument
RECURSIVE VirialPairs(_)
VirialPairs(rows) ==
    IF rows = <<>> THEN <<>>
    ELSE (IF Len(rows[1]) = 12
          THEN [i \in 1..6 |-> [predicted |-> rows[1][i], reference |-> rows[1][i + 6]]]
          ELSE <<>>)
         \o VirialPairs(Tail(rows))

IsKept(pair) == pair.reference # Sentinel

\* C7: a pair is left out of the virial arrays if and only if its reference
\* value is the sentinel; both members go together (the claim as stated).
C7_SentinelByReference ==
    pred.done =>
        LET kept == SelectSeq(VirialPairs(pred.rows), IsKept)
        IN  /\ pred.vd = [i \in 1..Len(kept) |-> kept[i].reference]
            /\ pred.vr = [i \in 1..Len(kept) |-> kept[i].predicted]

\* approximately equal distances, as the claim groups them into shells: within
\* 1e-8 + 1e-5 * |b|; a neighbour is nearer than 10.0 (two cutoffs of 5.0), which
\* keeps the tolerance below 20000 units
Near(a, b) == Abs(a - b) < 20000 /\ 100000 * (Abs(a - b) - 1) <= Abs(b)

\* the shell of the neighbour at position i of the sorted list
ShellOf(sorted, i) ==
    1 + Cardinality({j \in 1..(i - 1) : ~Near(sorted[j][1], sorted[j + 1][1])})

IsAscending(sorted) == \A i \in 1..(Len(sorted) - 1) : sorted[i][1] <= sorted[i + 1][1]

\* C9: the result is the first neighbour, in ascending order of distance, of
\* the nth shell, and None when there are fewer than nth shells.
C9_NthShell ==
    nn.asked =>
        LET sorted == SortedNeighbors(nn.pairs)
            inShell == {i \in 1..Len(sorted) : ShellOf(sorted, i) = nn.nth}
        IN  /\ IsAscending(sorted)
            /\ Len(sorted) = Len(nn.pairs)
            /\ \A i \in 1..Len(nn.pairs) : \E j \in 1..Len(sorted) : sorted[j] = nn.pairs[i]
            /\ inShell = {} => nn.result = None
            /\ inShell # {} =>
                  nn.result = Some(sorted[CHOOSE i \in inShell : \A k \in inShell : i <= k][2])

\* the second shell starts after two distances that are close to each other
C9_Witness ==
    /\ nn.asked /\ nn.nth = 2
    /\ nn.pairs = <<<<2 * One, 1>>, <<One + 1000, 2>>, <<One, 3>>>>
    /\ nn.result = Some(1)

=============================================================================
